---- MODULE Spec2Model ----
\* Model of clink's session host: host::edit_line (app/src/host/host.cpp).
\* One call of edit_line per session (process); sessions share one history
\* file.  Lines of text are sequences of one-character strings.
EXTENDS Integers, Sequences, FiniteSets, TLC

VARIABLES
    file,               \* the history file: sequence of lines
    settingsFile,       \* the settings file: stored values of the settings
    dirs,               \* the directories that exist on the machine
    pc,                 \* position of each session inside edit_line
    cwd,                \* process working directory
    m_path,             \* cwd_restorer::m_path
    g_ignore_case,      \* setting match.ignore_case
    g_add_history_cmd,  \* setting history.add_history_cmd
    cmp_mode,           \* str_compare_scope mode
    history,            \* rl_history: in-memory sequence of lines
    out,                \* the caller's output buffer
    ret,                \* local bool ret
    expandResult,       \* value returned by history.expand
    editor,             \* line_editor instance: "none", "live", "destroyed"
    ui,                 \* classic match ui: "none", "live", "destroyed"
    modules,            \* editor's module list
    generators,         \* editor's generator list
    ops,                \* trace of the operations each session performed
    typed,              \* text the user accepted at the latest edit call
    editStart,          \* buffer content handed to the latest edit call
    printed,            \* texts written by puts
    saveOk,             \* outcome of the history file write
    entryCwd,           \* working directory when edit_line was entered
    wandered,           \* the working directory has differed from entryCwd
    entryFile,          \* history file when the session first loaded it
    commitFile,         \* history file when the session reloaded to commit
    lastSaver           \* session whose save last wrote the file, 0 if none

vars == <<file, settingsFile, dirs, pc, cwd, m_path, g_ignore_case,
          g_add_history_cmd, cmp_mode, history, out, ret, expandResult,
          editor, ui, modules, generators, ops, typed, editStart, printed,
          saveOk, entryCwd, wandered, entryFile, commitFile, lastSaver>>

----------------------------------------------------------------------------
\* Bounds of the model.

\* Number of edit calls one session may make (the loop itself is unbounded).
MaxEdits == 2
\* Number of entries in the history file when the sessions start.
MaxInitHist == 1

Sessions == {1, 2}
Dirs == {"c:/work", "c:/scripts"}

----------------------------------------------------------------------------
\* Text.

L_empty == << >>
L_echo_hi == <<"e","c","h","o"," ","h","i">>
L_ls_la == <<"l","s"," ","-","l","a">>
L_history == <<"h","i","s","t","o","r","y">>
L_HISTORY_c == <<" "," ","H","I","S","T","O","R","Y"," "," ","-","c">>
L_tab_History == <<"\t","H","i","s","t","o","r","y">>
L_historyx == <<"h","i","s","t","o","r","y","x">>
L_hist == <<"h","i","s","t">>
L_bangbang == <<"!","!">>
L_bangbang_p == <<"!","!",":","p">>
L_bang_zz == <<"!","z","z">>

\* Lines the user may type at the prompt.
UserLines == {L_echo_hi, L_history, L_HISTORY_c, L_tab_History, L_historyx,
              L_hist, L_bangbang, L_bangbang_p, L_bang_zz}

\* Lines the history file may hold at the start.
SeedLines == {L_ls_la, L_history}

RECURSIVE SeqsUpTo(_, _)
SeqsUpTo(S, n) ==
    IF n = 0 THEN {<< >>}
    ELSE LET shorter == SeqsUpTo(S, n - 1)
             full == {r \in shorter : Len(r) = n - 1}
         IN shorter \cup {Append(q, x) : q \in full, x \in S}

InitFiles == SeqsUpTo(SeedLines, MaxInitHist)

UpperChars == <<"A","B","C","D","E","F","G","H","I","J","K","L","M",
                "N","O","P","Q","R","S","T","U","V","W","X","Y","Z">>
LowerChars == <<"a","b","c","d","e","f","g","h","i","j","k","l","m",
                "n","o","p","q","r","s","t","u","v","w","x","y","z">>

\* tolower as _strnicmp applies it to each character.
ToLower(c) ==
    IF \E i \in 1..Len(UpperChars) : UpperChars[i] = c
    THEN LowerChars[CHOOSE i \in 1..Len(UpperChars) : UpperChars[i] = c]
    ELSE c

\* _strnicmp(a, b, n) == 0: at each of the first n positions the two strings
\* hold the same character ignoring case, or both have ended.
StrNICmpEq(a, b, n) ==
    \A i \in 1..n :
        \/ (i <= Len(a) /\ i <= Len(b) /\ ToLower(a[i]) = ToLower(b[i]))
        \/ (i > Len(a) /\ i > Len(b))

\* while (*c == ' ' || *c == '\t') ++c;
RECURSIVE SkipBlanks(_)
SkipBlanks(line) ==
    IF line # << >> /\ (Head(line) = " " \/ Head(line) = "\t")
    THEN SkipBlanks(Tail(line))
    ELSE line

HistoryCmdLen == 7

\* The test of the 'history' policy on the text in the output buffer.
BeginsWithHistory(line) ==
    StrNICmpEq(SkipBlanks(line), L_history, HistoryCmdLen)

\* The test done with strncmp in place of _strnicmp.
SkipHistoryLine_CaseSensitive(addHistoryCmd, line) ==
    /\ ~addHistoryCmd
    /\ Len(SkipBlanks(line)) >= HistoryCmdLen
    /\ SubSeq(SkipBlanks(line), 1, HistoryCmdLen) = L_history

\* if (!g_add_history_cmd.get()) { ... if (_strnicmp(...) == 0) break; }
SkipHistoryLine(addHistoryCmd, line) ==
    ~addHistoryCmd /\ BeginsWithHistory(line)

\* The line is added without the reload in front of it.
AfterPolicy_NoReload(skip) == IF skip THEN "save" ELSE "add"

\* Where the loop body goes after the policy test: out of the loop, or on to
\* history.load and history.add.
AfterPolicy(skip) == IF skip THEN "save" ELSE "reload"

\* The body of the if is run whatever edit returned.
AfterEdit_IgnoresAbort(accepted) == "expand"

\* if (ret = editor->edit(...)) { ... } break;
AfterEdit(accepted) == IF accepted THEN "expand" ELSE "save"

----------------------------------------------------------------------------
\* rl_history (rl/rl_history.cpp), as the specification describes it.

Last(q) == q[Len(q)]

ContainsBang(line) == \E i \in 1..Len(line) : line[i] = "!"

HasPrefix(line, p) == Len(line) >= Len(p) /\ SubSeq(line, 1, Len(p)) = p

\* Result codes of rl_history::expand.
NoExpansion == 0
ExpandedCommitable == 1
ExpandedNeedsReview == 2
ExpandError == -1

\* history.expand(line, out): the result code and the text left in out.
\* "!!" names the latest entry, the suffix ":p" asks for display only, and a
\* reference that cannot be resolved is an error that leaves the text as is.
Expand(hist, line) ==
    IF ~ContainsBang(line)
    THEN [result |-> NoExpansion, text |-> line]
    ELSE IF HasPrefix(line, L_bangbang) /\ hist # << >>
    THEN LET rest == SubSeq(line, 3, Len(line))
         IN IF rest = <<":", "p">>
            THEN [result |-> ExpandedNeedsReview, text |-> Last(hist)]
            ELSE IF ~ContainsBang(rest)
            THEN [result |-> ExpandedCommitable, text |-> Last(hist) \o rest]
            ELSE [result |-> ExpandError, text |-> line]
    ELSE [result |-> ExpandError, text |-> line]

\* history.load(path): the in-memory sequence becomes the file's contents.
HistLoad(f) == f

\* history.add(line): the line is appended verbatim, in memory only.
HistAdd(hist, line) == Append(hist, line)

\* history.save(path): the file becomes the in-memory sequence, or the write
\* fails and the file is left as it was.
HistSave(f, hist, ok) == IF ok THEN hist ELSE f

----------------------------------------------------------------------------
\* Settings (static initialisers at the top of host.cpp).

IgnoreCaseDefault == 2
AddHistoryCmdDefault == TRUE

\* A setting's getter: the stored value, or the default when the settings
\* file does not mention the setting.  Stored values are 0- or 1-element
\* sequences.
SettingGet(stored, default) == IF stored = << >> THEN default ELSE stored[1]

SettingsFiles == [ignore_case : {<< >>, <<0>>, <<1>>, <<2>>},
                  add_history_cmd : {<< >>, <<TRUE>>, <<FALSE>>}]

\* The cases 1 and 2 of the switch exchanged.
CmpMode_Swapped(v) ==
    CASE v = 1 -> "relaxed"
      [] v = 2 -> "caseless"
      [] OTHER -> "exact"

\* switch (g_ignore_case.get())
CmpMode(v) ==
    CASE v = 1 -> "caseless"
      [] v = 2 -> "relaxed"
      [] OTHER -> "exact"

----------------------------------------------------------------------------
\* The state after construction: no session has called edit_line yet.

Init ==
    /\ file \in InitFiles
    /\ settingsFile \in SettingsFiles
    /\ dirs \in (SUBSET Dirs) \ {{}}
    /\ pc = [s \in Sessions |-> "idle"]
    /\ cwd \in [Sessions -> dirs]
    /\ m_path = [s \in Sessions |-> ""]
    /\ g_ignore_case = [s \in Sessions |-> IgnoreCaseDefault]
    /\ g_add_history_cmd = [s \in Sessions |-> AddHistoryCmdDefault]
    /\ cmp_mode = [s \in Sessions |-> "unset"]
    /\ history = [s \in Sessions |-> << >>]
    /\ out = [s \in Sessions |-> << >>]
    /\ ret = [s \in Sessions |-> FALSE]
    /\ expandResult = [s \in Sessions |-> NoExpansion]
    /\ editor = [s \in Sessions |-> "none"]
    /\ ui = [s \in Sessions |-> "none"]
    /\ modules = [s \in Sessions |-> << >>]
    /\ generators = [s \in Sessions |-> << >>]
    /\ ops = [s \in Sessions |-> << >>]
    /\ typed = [s \in Sessions |-> << >>]
    /\ editStart = [s \in Sessions |-> << >>]
    /\ printed = [s \in Sessions |-> << >>]
    /\ saveOk = [s \in Sessions |-> TRUE]
    /\ entryCwd = cwd
    /\ wandered = [s \in Sessions |-> FALSE]
    /\ entryFile = [s \in Sessions |-> << >>]
    /\ commitFile = [s \in Sessions |-> << >>]
    /\ lastSaver = 0

Count(q, x) == Cardinality({i \in 1..Len(q) : q[i] = x})

NumEdits(s) == Count(ops[s], "edit_accepted") + Count(ops[s], "edit_aborted")

Did(s, op) == ops' = [ops EXCEPT ![s] = Append(@, op)]

----------------------------------------------------------------------------
\* host::edit_line, one action per step.

\* cwd_restorer's constructor: os::get_current_dir(m_path).
Enter(s) ==
    /\ pc[s] = "idle"
    /\ m_path' = [m_path EXCEPT ![s] = cwd[s]]
    /\ entryCwd' = [entryCwd EXCEPT ![s] = cwd[s]]
    /\ Did(s, "capture_cwd")
    /\ pc' = [pc EXCEPT ![s] = "settings"]
    /\ UNCHANGED <<commitFile, lastSaver,
                   file, settingsFile, dirs, cwd, g_ignore_case,
                   g_add_history_cmd,
                   cmp_mode, history, out, ret, expandResult, editor, ui,
                   modules, generators, typed, editStart, printed, saveOk,
                   entryFile, wandered>>

\* settings::load and the choice of the comparison mode.
LoadSettings(s) ==
    /\ pc[s] = "settings"
    /\ LET ic == SettingGet(settingsFile.ignore_case, IgnoreCaseDefault)
       IN /\ g_ignore_case' = [g_ignore_case EXCEPT ![s] = ic]
          /\ cmp_mode' = [cmp_mode EXCEPT ![s] = CmpMode(ic)]
    /\ g_add_history_cmd' = [g_add_history_cmd EXCEPT ![s] =
           SettingGet(settingsFile.add_history_cmd, AddHistoryCmdDefault)]
    /\ Did(s, "settings_load")
    /\ pc' = [pc EXCEPT ![s] = "history"]
    /\ UNCHANGED <<commitFile, lastSaver,
                   file, settingsFile, dirs, cwd, m_path, history, out, ret,
                   expandResult, editor, ui, modules, generators, typed,
                   editStart, printed, saveOk, entryCwd, entryFile, wandered>>

\* rl_history history; history.load(history_file).
InitialLoad(s) ==
    /\ pc[s] = "history"
    /\ history' = [history EXCEPT ![s] = HistLoad(file)]
    /\ entryFile' = [entryFile EXCEPT ![s] = file]
    /\ Did(s, "load")
    /\ pc' = [pc EXCEPT ![s] = "lua"]
    /\ UNCHANGED <<commitFile, lastSaver,
                   file, settingsFile, dirs, cwd, m_path, g_ignore_case,
                   g_add_history_cmd, cmp_mode, out, ret, expandResult, editor,
                   ui, modules, generators, typed, editStart, printed, saveOk,
                   entryCwd, wandered>>

\* The Lua state and its scripts; a script may change the working directory.
LoadScripts(s) ==
    /\ pc[s] = "lua"
    /\ \E d \in dirs :
        /\ cwd' = [cwd EXCEPT ![s] = d]
        /\ wandered' = [wandered EXCEPT ![s] = @ \/ d # entryCwd[s]]
    /\ Did(s, "load_scripts")
    /\ pc' = [pc EXCEPT ![s] = "build"]
    /\ UNCHANGED <<commitFile, lastSaver,
                   file, settingsFile, dirs, m_path, g_ignore_case,
                   g_add_history_cmd, cmp_mode, history, out, ret,
                   expandResult, editor, ui, modules, generators, typed,
                   editStart, printed, saveOk, entryCwd, entryFile>>

\* The calls that create the editor and fill it, in the order of the code.
Registrations ==
    <<"create_editor", "create_ui", "add_module", "add_module", "add_module",
      "add_generator", "add_generator">>

\* The host module is added before the ui and the scroller.
BuildEditor_HostModuleFirst(s) ==
    /\ pc[s] = "build"
    /\ editor' = [editor EXCEPT ![s] = "live"]
    /\ ui' = [ui EXCEPT ![s] = "live"]
    /\ modules' = [modules EXCEPT ![s] = <<"host_module", "ui", "scroller">>]
    /\ generators' = [generators EXCEPT ![s] =
                         <<"lua_generator", "file_match_generator">>]
    /\ ret' = [ret EXCEPT ![s] = FALSE]
    /\ ops' = [ops EXCEPT ![s] = @ \o Registrations]
    /\ pc' = [pc EXCEPT ![s] = "edit"]
    /\ UNCHANGED <<commitFile, lastSaver,
                   file, settingsFile, dirs, cwd, m_path, g_ignore_case,
                   g_add_history_cmd, cmp_mode, history, out, expandResult,
                   typed, editStart, printed, saveOk, entryCwd, entryFile,
                   wandered>>

\* The file generator is added before the Lua generator.
BuildEditor_FileGeneratorFirst(s) ==
    /\ pc[s] = "build"
    /\ editor' = [editor EXCEPT ![s] = "live"]
    /\ ui' = [ui EXCEPT ![s] = "live"]
    /\ modules' = [modules EXCEPT ![s] = <<"ui", "scroller", "host_module">>]
    /\ generators' = [generators EXCEPT ![s] =
                         <<"file_match_generator", "lua_generator">>]
    /\ ret' = [ret EXCEPT ![s] = FALSE]
    /\ ops' = [ops EXCEPT ![s] = @ \o Registrations]
    /\ pc' = [pc EXCEPT ![s] = "edit"]
    /\ UNCHANGED <<commitFile, lastSaver,
                   file, settingsFile, dirs, cwd, m_path, g_ignore_case,
                   g_add_history_cmd, cmp_mode, history, out, expandResult,
                   typed, editStart, printed, saveOk, entryCwd, entryFile,
                   wandered>>

\* The editor, its modules and generators, and bool ret = false.
BuildEditor(s) ==
    /\ pc[s] = "build"
    /\ editor' = [editor EXCEPT ![s] = "live"]
    /\ ui' = [ui EXCEPT ![s] = "live"]
    /\ modules' = [modules EXCEPT ![s] = <<"ui", "scroller", "host_module">>]
    /\ generators' = [generators EXCEPT ![s] =
                         <<"lua_generator", "file_match_generator">>]
    /\ ret' = [ret EXCEPT ![s] = FALSE]
    /\ ops' = [ops EXCEPT ![s] = @ \o Registrations]
    /\ pc' = [pc EXCEPT ![s] = "edit"]
    /\ UNCHANGED <<commitFile, lastSaver,
                   file, settingsFile, dirs, cwd, m_path, g_ignore_case,
                   g_add_history_cmd, cmp_mode, history, out, expandResult,
                   typed, editStart, printed, saveOk, entryCwd, entryFile,
                   wandered>>

\* ret = editor->edit(out.data(), out.size()): the user accepts a line, which
\* may be the text the buffer started with, or aborts.
Edit(s) ==
    /\ pc[s] = "edit"
    /\ NumEdits(s) < MaxEdits
    /\ editor[s] = "live"
    /\ editStart' = [editStart EXCEPT ![s] = out[s]]
    /\ \E d \in dirs :
        /\ cwd' = [cwd EXCEPT ![s] = d]
        /\ wandered' = [wandered EXCEPT ![s] = @ \/ d # entryCwd[s]]
    /\ \E accepted \in BOOLEAN :
        /\ ret' = [ret EXCEPT ![s] = accepted]
        /\ IF accepted
           THEN /\ \E line \in UserLines \cup {out[s]} :
                     /\ out' = [out EXCEPT ![s] = line]
                     /\ typed' = [typed EXCEPT ![s] = line]
                /\ Did(s, "edit_accepted")
           ELSE /\ UNCHANGED <<out, typed>>
                /\ Did(s, "edit_aborted")
        /\ pc' = [pc EXCEPT ![s] = AfterEdit(accepted)]
    /\ UNCHANGED <<commitFile, lastSaver,
                   file, settingsFile, dirs, m_path, g_ignore_case,
                   g_add_history_cmd, cmp_mode, history, expandResult, editor,
                   ui, modules, generators, printed, saveOk, entryCwd,
                   entryFile>>

\* The expansion goes to a scratch buffer: out keeps the text the user typed.
ExpandStep_KeepsTyped(s) ==
    /\ pc[s] = "expand"
    /\ LET e == Expand(history[s], out[s])
       IN /\ expandResult' = [expandResult EXCEPT ![s] = e.result]
          /\ UNCHANGED out
          /\ IF e.result = ExpandedNeedsReview
             THEN /\ printed' = [printed EXCEPT ![s] = Append(@, e.text)]
                  /\ ops' = [ops EXCEPT ![s] = @ \o <<"expand", "puts">>]
                  /\ pc' = [pc EXCEPT ![s] = "edit"]
             ELSE /\ UNCHANGED printed
                  /\ Did(s, "expand")
                  /\ pc' = [pc EXCEPT ![s] = "policy"]
    /\ UNCHANGED <<commitFile, lastSaver,
                   file, settingsFile, dirs, cwd, m_path, g_ignore_case,
                   g_add_history_cmd, cmp_mode, history, ret, editor, ui,
                   modules, generators, typed, editStart, saveOk, entryCwd,
                   entryFile, wandered>>

\* The text shown for review is also added to the history.
ExpandStep_AddsReviewed(s) ==
    /\ pc[s] = "expand"
    /\ LET e == Expand(history[s], out[s])
       IN /\ expandResult' = [expandResult EXCEPT ![s] = e.result]
          /\ out' = [out EXCEPT ![s] = e.text]
          /\ IF e.result = ExpandedNeedsReview
             THEN /\ printed' = [printed EXCEPT ![s] = Append(@, e.text)]
                  /\ history' = [history EXCEPT ![s] = HistAdd(@, e.text)]
                  /\ ops' = [ops EXCEPT ![s] = @ \o <<"expand", "puts">>]
                  /\ pc' = [pc EXCEPT ![s] = "edit"]
             ELSE /\ UNCHANGED <<printed, history>>
                  /\ Did(s, "expand")
                  /\ pc' = [pc EXCEPT ![s] = "policy"]
    /\ UNCHANGED <<commitFile, lastSaver,
                   file, settingsFile, dirs, cwd, m_path, g_ignore_case,
                   g_add_history_cmd, cmp_mode, ret, editor, ui,
                   modules, generators, typed, editStart, saveOk, entryCwd,
                   entryFile, wandered>>

\* The test is "!= 1" in place of "== 2": a line that needed no expansion is
\* shown for review as well.
ExpandStep_ReviewsUnexpanded(s) ==
    /\ pc[s] = "expand"
    /\ LET e == Expand(history[s], out[s])
       IN /\ expandResult' = [expandResult EXCEPT ![s] = e.result]
          /\ out' = [out EXCEPT ![s] = e.text]
          /\ IF e.result # ExpandedCommitable
             THEN /\ printed' = [printed EXCEPT ![s] = Append(@, e.text)]
                  /\ ops' = [ops EXCEPT ![s] = @ \o <<"expand", "puts">>]
                  /\ pc' = [pc EXCEPT ![s] = "edit"]
             ELSE /\ UNCHANGED printed
                  /\ Did(s, "expand")
                  /\ pc' = [pc EXCEPT ![s] = "policy"]
    /\ UNCHANGED <<commitFile, lastSaver,
                   file, settingsFile, dirs, cwd, m_path, g_ignore_case,
                   g_add_history_cmd, cmp_mode, history, ret, editor, ui,
                   modules, generators, typed, editStart, saveOk, entryCwd,
                   entryFile, wandered>>

\* An error of the expansion is shown and retried like a review.
ExpandStep_RetriesOnError(s) ==
    /\ pc[s] = "expand"
    /\ LET e == Expand(history[s], out[s])
       IN /\ expandResult' = [expandResult EXCEPT ![s] = e.result]
          /\ out' = [out EXCEPT ![s] = e.text]
          /\ IF e.result = ExpandedNeedsReview \/ e.result < 0
             THEN /\ printed' = [printed EXCEPT ![s] = Append(@, e.text)]
                  /\ ops' = [ops EXCEPT ![s] = @ \o <<"expand", "puts">>]
                  /\ pc' = [pc EXCEPT ![s] = "edit"]
             ELSE /\ UNCHANGED printed
                  /\ Did(s, "expand")
                  /\ pc' = [pc EXCEPT ![s] = "policy"]
    /\ UNCHANGED <<commitFile, lastSaver,
                   file, settingsFile, dirs, cwd, m_path, g_ignore_case,
                   g_add_history_cmd, cmp_mode, history, ret, editor, ui,
                   modules, generators, typed, editStart, saveOk, entryCwd,
                   entryFile, wandered>>

\* The continue is missing: the reviewed text goes on to the policy test.
ExpandStep_ReviewFallsThrough(s) ==
    /\ pc[s] = "expand"
    /\ LET e == Expand(history[s], out[s])
       IN /\ expandResult' = [expandResult EXCEPT ![s] = e.result]
          /\ out' = [out EXCEPT ![s] = e.text]
          /\ IF e.result = ExpandedNeedsReview
             THEN /\ printed' = [printed EXCEPT ![s] = Append(@, e.text)]
                  /\ ops' = [ops EXCEPT ![s] = @ \o <<"expand", "puts">>]
                  /\ pc' = [pc EXCEPT ![s] = "policy"]
             ELSE /\ UNCHANGED printed
                  /\ Did(s, "expand")
                  /\ pc' = [pc EXCEPT ![s] = "policy"]
    /\ UNCHANGED <<commitFile, lastSaver,
                   file, settingsFile, dirs, cwd, m_path, g_ignore_case,
                   g_add_history_cmd, cmp_mode, history, ret, editor, ui,
                   modules, generators, typed, editStart, saveOk, entryCwd,
                   entryFile, wandered>>

\* history.expand(out.c_str(), out); on 2 the text is printed and the loop
\* continues.
ExpandStep(s) ==
    /\ pc[s] = "expand"
    /\ LET e == Expand(history[s], out[s])
       IN /\ expandResult' = [expandResult EXCEPT ![s] = e.result]
          /\ out' = [out EXCEPT ![s] = e.text]
          /\ IF e.result = ExpandedNeedsReview
             THEN /\ printed' = [printed EXCEPT ![s] = Append(@, e.text)]
                  /\ ops' = [ops EXCEPT ![s] = @ \o <<"expand", "puts">>]
                  /\ pc' = [pc EXCEPT ![s] = "edit"]
             ELSE /\ UNCHANGED printed
                  /\ Did(s, "expand")
                  /\ pc' = [pc EXCEPT ![s] = "policy"]
    /\ UNCHANGED <<commitFile, lastSaver,
                   file, settingsFile, dirs, cwd, m_path, g_ignore_case,
                   g_add_history_cmd, cmp_mode, history, ret, editor, ui,
                   modules, generators, typed, editStart, saveOk, entryCwd,
                   entryFile, wandered>>

\* A line skipped by the policy is reported as not accepted.
PolicyStep_SkipRejects(s) ==
    /\ pc[s] = "policy"
    /\ ret' = [ret EXCEPT ![s] =
                  ~SkipHistoryLine(g_add_history_cmd[s], out[s])]
    /\ pc' = [pc EXCEPT ![s] =
                 AfterPolicy(SkipHistoryLine(g_add_history_cmd[s], out[s]))]
    /\ UNCHANGED <<commitFile, lastSaver,
                   file, settingsFile, dirs, cwd, m_path, g_ignore_case,
                   g_add_history_cmd, cmp_mode, history, out,
                   expandResult, editor, ui, modules, generators, ops, typed,
                   editStart, printed, saveOk, entryCwd, entryFile, wandered>>

\* Should we skip adding lines beginning with 'history'?
PolicyStep(s) ==
    /\ pc[s] = "policy"
    /\ pc' = [pc EXCEPT ![s] =
                 AfterPolicy(SkipHistoryLine(g_add_history_cmd[s], out[s]))]
    /\ UNCHANGED <<commitFile, lastSaver,
                   file, settingsFile, dirs, cwd, m_path, g_ignore_case,
                   g_add_history_cmd, cmp_mode, history, out, ret,
                   expandResult, editor, ui, modules, generators, ops, typed,
                   editStart, printed, saveOk, entryCwd, entryFile, wandered>>

\* The line is added to what the session loaded at its start: the file is
\* not read again.
Reload_KeepsSnapshot(s) ==
    /\ pc[s] = "reload"
    /\ UNCHANGED history
    /\ commitFile' = [commitFile EXCEPT ![s] = file]
    /\ Did(s, "load")
    /\ pc' = [pc EXCEPT ![s] = "add"]
    /\ UNCHANGED <<lastSaver,
                   file, settingsFile, dirs, cwd, m_path, g_ignore_case,
                   g_add_history_cmd, cmp_mode, out, ret, expandResult, editor,
                   ui, modules, generators, typed, editStart, printed, saveOk,
                   entryCwd, entryFile, wandered>>

\* history.load(history_file) before the line is added.
Reload(s) ==
    /\ pc[s] = "reload"
    /\ history' = [history EXCEPT ![s] = HistLoad(file)]
    /\ commitFile' = [commitFile EXCEPT ![s] = file]
    /\ Did(s, "load")
    /\ pc' = [pc EXCEPT ![s] = "add"]
    /\ UNCHANGED <<lastSaver,
                   file, settingsFile, dirs, cwd, m_path, g_ignore_case,
                   g_add_history_cmd, cmp_mode, out, ret, expandResult, editor,
                   ui, modules, generators, typed, editStart, printed, saveOk,
                   entryCwd, entryFile, wandered>>

\* The history is written to the file as soon as the line is added.
AddLine_Saves(s) ==
    /\ pc[s] = "add"
    /\ history' = [history EXCEPT ![s] = HistAdd(@, out[s])]
    /\ file' = HistAdd(history[s], out[s])
    /\ ops' = [ops EXCEPT ![s] = @ \o <<"add", "save">>]
    /\ pc' = [pc EXCEPT ![s] = "save"]
    /\ UNCHANGED <<commitFile, lastSaver,
                   settingsFile, dirs, cwd, m_path, g_ignore_case,
                   g_add_history_cmd, cmp_mode, out, ret, expandResult, editor,
                   ui, modules, generators, typed, editStart, printed, saveOk,
                   entryCwd, entryFile, wandered>>

\* The line added is the one the user typed, not the expanded one.
AddLine_Typed(s) ==
    /\ pc[s] = "add"
    /\ history' = [history EXCEPT ![s] = HistAdd(@, typed[s])]
    /\ Did(s, "add")
    /\ pc' = [pc EXCEPT ![s] = "save"]
    /\ UNCHANGED <<commitFile, lastSaver,
                   file, settingsFile, dirs, cwd, m_path, g_ignore_case,
                   g_add_history_cmd, cmp_mode, out, ret, expandResult, editor,
                   ui, modules, generators, typed, editStart, printed, saveOk,
                   entryCwd, entryFile, wandered>>

\* history.add(out.c_str()), then the break that leaves the loop.
AddLine(s) ==
    /\ pc[s] = "add"
    /\ history' = [history EXCEPT ![s] = HistAdd(@, out[s])]
    /\ Did(s, "add")
    /\ pc' = [pc EXCEPT ![s] = "save"]
    /\ UNCHANGED <<commitFile, lastSaver,
                   file, settingsFile, dirs, cwd, m_path, g_ignore_case,
                   g_add_history_cmd, cmp_mode, out, ret, expandResult, editor,
                   ui, modules, generators, typed, editStart, printed, saveOk,
                   entryCwd, entryFile, wandered>>

\* A failed write turns the result of edit_line into false.
Save_ReportsFailure(s) ==
    /\ pc[s] = "save"
    /\ \E ok \in BOOLEAN :
        /\ file' = HistSave(file, history[s], ok)
        /\ saveOk' = [saveOk EXCEPT ![s] = ok]
        /\ lastSaver' = IF ok THEN s ELSE lastSaver
        /\ ret' = [ret EXCEPT ![s] = @ /\ ok]
    /\ Did(s, "save")
    /\ pc' = [pc EXCEPT ![s] = "destroy"]
    /\ UNCHANGED <<commitFile,
                   settingsFile, dirs, cwd, m_path, g_ignore_case,
                   g_add_history_cmd, cmp_mode, history, out,
                   expandResult, editor, ui, modules, generators, typed,
                   editStart, printed, entryCwd, entryFile, wandered>>

\* The save appends the session's own line to what the file holds now,
\* in place of overwriting the file.
Save_Merges(s) ==
    /\ pc[s] = "save"
    /\ \E ok \in BOOLEAN :
        /\ file' = IF ok /\ Count(ops[s], "add") = 1
                   THEN Append(file, Last(history[s]))
                   ELSE file
        /\ saveOk' = [saveOk EXCEPT ![s] = ok]
        /\ lastSaver' = IF ok THEN s ELSE lastSaver
    /\ Did(s, "save")
    /\ pc' = [pc EXCEPT ![s] = "destroy"]
    /\ UNCHANGED <<commitFile,
                   settingsFile, dirs, cwd, m_path, g_ignore_case,
                   g_add_history_cmd, cmp_mode, history, out, ret,
                   expandResult, editor, ui, modules, generators, typed,
                   editStart, printed, entryCwd, entryFile, wandered>>

\* history.save(history_file); its outcome is not looked at.
Save(s) ==
    /\ pc[s] = "save"
    /\ \E ok \in BOOLEAN :
        /\ file' = HistSave(file, history[s], ok)
        /\ saveOk' = [saveOk EXCEPT ![s] = ok]
        /\ lastSaver' = IF ok THEN s ELSE lastSaver
    /\ Did(s, "save")
    /\ pc' = [pc EXCEPT ![s] = "destroy"]
    /\ UNCHANGED <<commitFile,
                   settingsFile, dirs, cwd, m_path, g_ignore_case,
                   g_add_history_cmd, cmp_mode, history, out, ret,
                   expandResult, editor, ui, modules, generators, typed,
                   editStart, printed, entryCwd, entryFile, wandered>>

\* Only the editor is destroyed; the completion ui is left alive.
Destroy_LeaksUi(s) ==
    /\ pc[s] = "destroy"
    /\ editor' = [editor EXCEPT ![s] = "destroyed"]
    /\ UNCHANGED ui
    /\ ops' = [ops EXCEPT ![s] = Append(@, "destroy_editor")]
    /\ pc' = [pc EXCEPT ![s] = "return"]
    /\ UNCHANGED <<commitFile, lastSaver,
                   file, settingsFile, dirs, cwd, m_path, g_ignore_case,
                   g_add_history_cmd, cmp_mode, history, out, ret,
                   expandResult, modules, generators, typed, editStart,
                   printed, saveOk, entryCwd, entryFile, wandered>>

\* line_editor_destroy(editor); classic_match_ui_destroy(ui).
Destroy(s) ==
    /\ pc[s] = "destroy"
    /\ editor' = [editor EXCEPT ![s] = "destroyed"]
    /\ ui' = [ui EXCEPT ![s] = "destroyed"]
    /\ ops' = [ops EXCEPT ![s] = @ \o <<"destroy_editor", "destroy_ui">>]
    /\ pc' = [pc EXCEPT ![s] = "return"]
    /\ UNCHANGED <<commitFile, lastSaver,
                   file, settingsFile, dirs, cwd, m_path, g_ignore_case,
                   g_add_history_cmd, cmp_mode, history, out, ret,
                   expandResult, modules, generators, typed, editStart,
                   printed, saveOk, entryCwd, entryFile, wandered>>

\* The function returns without putting the working directory back.
Return_NoRestore(s) ==
    /\ pc[s] = "return"
    /\ UNCHANGED cwd
    /\ Did(s, "restore_cwd")
    /\ pc' = [pc EXCEPT ![s] = "done"]
    /\ UNCHANGED <<commitFile, lastSaver,
                   file, settingsFile, dirs, m_path, g_ignore_case,
                   g_add_history_cmd, cmp_mode, history, out, ret,
                   expandResult, editor, ui, modules, generators, typed,
                   editStart, printed, saveOk, entryCwd, entryFile, wandered>>

\* return ret; cwd_restorer's destructor: os::set_current_dir(m_path).
Return(s) ==
    /\ pc[s] = "return"
    /\ cwd' = [cwd EXCEPT ![s] = m_path[s]]
    /\ Did(s, "restore_cwd")
    /\ pc' = [pc EXCEPT ![s] = "done"]
    /\ UNCHANGED <<commitFile, lastSaver,
                   file, settingsFile, dirs, m_path, g_ignore_case,
                   g_add_history_cmd, cmp_mode, history, out, ret,
                   expandResult, editor, ui, modules, generators, typed,
                   editStart, printed, saveOk, entryCwd, entryFile, wandered>>

EditLine(s) ==
    \/ Enter(s)
    \/ LoadSettings(s)
    \/ InitialLoad(s)
    \/ LoadScripts(s)
    \/ BuildEditor(s)
    \/ Edit(s)
    \/ ExpandStep(s)
    \/ PolicyStep(s)
    \/ Reload(s)
    \/ AddLine(s)
    \/ Save(s)
    \/ Destroy(s)
    \/ Return(s)

\* One session alone on the history file.
Next == EditLine(1)

Spec == Init /\ [][Next]_vars

\* Two sessions (two processes) sharing the history file.
NextShared == \E s \in Sessions : EditLine(s)

InitShared ==
    /\ Init
    /\ settingsFile.ignore_case = << >>
    /\ dirs = {"c:/work"}

SpecShared == InitShared /\ [][NextShared]_vars

\* The steps of a session that is inside edit_line and not waiting for the
\* user: straight-line code, which the process keeps executing.
Running(s) ==
    \/ LoadSettings(s)
    \/ InitialLoad(s)
    \/ LoadScripts(s)
    \/ BuildEditor(s)
    \/ ExpandStep(s)
    \/ PolicyStep(s)
    \/ Reload(s)
    \/ AddLine(s)
    \/ Save(s)
    \/ Destroy(s)
    \/ Return(s)

\* One session whose code keeps running; the edit call may block for ever.
SpecLive == Init /\ [][Next]_vars /\ WF_vars(Running(1))

----------------------------------------------------------------------------
\* The editor's match pipeline (lib/line_editor), as the specification
\* describes it: the generators are consulted in the order of registration
\* and their candidates are kept in that order.

RECURSIVE CombineMatches(_, _)
CombineMatches(gens, matchesOf) ==
    IF gens = << >> THEN << >>
    ELSE matchesOf[Head(gens)] \o CombineMatches(Tail(gens), matchesOf)

----------------------------------------------------------------------------
\* Vocabulary of the properties.

LoopExited(s) == pc[s] \in {"destroy", "return", "done"}

IsPrefixOf(a, b) == Len(a) <= Len(b) /\ SubSeq(b, 1, Len(a)) = a

OpsAfter(s, i) == SubSeq(ops[s], i + 1, Len(ops[s]))

Teardown == <<"save", "destroy_editor", "destroy_ui", "restore_cwd">>

EditOps == {"edit_accepted", "edit_aborted"}

\* The latest edit call of the session returned true.
LastEditAccepted(s) ==
    \E i \in 1..Len(ops[s]) :
        /\ ops[s][i] = "edit_accepted"
        /\ \A j \in (i + 1)..Len(ops[s]) : ops[s][j] \notin EditOps

\* The value of history.add_history_cmd the settings give.
AddHistoryCmdSetting ==
    SettingGet(settingsFile.add_history_cmd, AddHistoryCmdDefault)

\* The line, after its leading spaces and tabs, begins with the seven
\* letters of 'history' in any case.
IsBlank(c) == c = " " \/ c = "\t"

HistoryLine(line) ==
    \E k \in 0..Len(line) :
        /\ \A i \in 1..k : IsBlank(line[i])
        /\ Len(line) >= k + 7
        /\ ~IsBlank(line[k + 1])
        /\ \A i \in 1..7 : ToLower(line[k + i]) = L_history[i]

----------------------------------------------------------------------------
\* C1: history.save runs exactly once per edit_line, after the edit loop has
\* been left: a session that is still before or inside the loop has saved
\* nothing, and a session past the save has saved once, whatever the outcome
\* and however many review cycles there were.
C1_SaveOnceAfterLoop ==
    \A s \in Sessions :
        Count(ops[s], "save") = IF LoopExited(s) THEN 1 ELSE 0

\* A session finished after a review cycle, having saved once.
C1_Witness ==
    /\ pc[1] = "done"
    /\ Count(ops[1], "puts") >= 1
    /\ Count(ops[1], "add") = 1
    /\ Count(ops[1], "save") = 1

\* C2: every history.add of a session comes right after a history.load,
\* with no other operation between the two.
C2_ReloadBeforeAdd ==
    \A s \in Sessions :
        \A i \in 1..Len(ops[s]) :
            ops[s][i] = "add" => (i > 1 /\ ops[s][i - 1] = "load")

\* A session has added its line, the reload being the second load.
C2_Witness ==
    /\ pc[1] = "save"
    /\ Count(ops[1], "add") = 1
    /\ Count(ops[1], "load") = 2

\* C3: when edit_line has returned, the working directory is the one it was
\* entered with, for every outcome; the directory is captured as the first
\* thing the function does.
C3_CwdRestored ==
    \A s \in Sessions :
        /\ pc[s] = "done" => cwd[s] = entryCwd[s]
        /\ pc[s] # "idle" =>
               /\ m_path[s] = entryCwd[s]
               /\ ops[s][1] = "capture_cwd"

\* edit_line returned after a failed save, the working directory having been
\* elsewhere in between.
C3_Witness ==
    /\ pc[1] = "done"
    /\ wandered[1]
    /\ ~saveOk[1]
    /\ cwd[1] = entryCwd[1]

\* C4: after an edit call that returned false nothing happens but the final
\* save, the teardown and the return, and the value returned is false.
C4_AbortSkipsCommit ==
    \A s \in Sessions :
        \A i \in 1..Len(ops[s]) :
            ops[s][i] = "edit_aborted" =>
                /\ ~ret[s]
                /\ IsPrefixOf(OpsAfter(s, i), Teardown)
                /\ pc[s] = "done" => OpsAfter(s, i) = Teardown

\* An aborted session has returned.
C4_Witness ==
    /\ pc[1] = "done"
    /\ Count(ops[1], "edit_aborted") = 1
    /\ Count(ops[1], "edit_accepted") = 1
    /\ ~ret[1]

\* C5: after an expansion that asks for review the expanded text has been
\* printed, nothing has been added to the history, the session is back at
\* the edit call, and that call starts from the expanded text.
C5_ReviewRestartsEdit ==
    \A s \in Sessions :
        LET e == Expand(history[s], typed[s])
            n == Len(ops[s])
        IN  /\ (pc[s] = "edit" /\ NumEdits(s) > 0) =>
                   /\ e.result = ExpandedNeedsReview
                   /\ out[s] = e.text
                   /\ Last(printed[s]) = e.text
                   /\ SubSeq(ops[s], n - 2, n) =
                          <<"edit_accepted", "expand", "puts">>
                   /\ Count(ops[s], "add") = 0
            /\ (NumEdits(s) = Len(printed[s]) + 1 /\ printed[s] # << >>) =>
                   editStart[s] = Last(printed[s])

\* The second edit call started from the text "!!:p" expanded to.
C5_Witness ==
    /\ pc[1] = "expand"
    /\ NumEdits(1) = 2
    /\ printed[1] = <<L_ls_la>>
    /\ editStart[1] = L_ls_la

\* C6: with history.add_history_cmd false an accepted line that begins with
\* 'history' (any case, after blanks) is not added and the file keeps its
\* contents; with the setting true the line is added like any other.
C6_HistoryPolicy ==
    \A s \in Sessions :
        (LoopExited(s) /\ ret[s] /\ HistoryLine(out[s])) =>
            IF AddHistoryCmdSetting
            THEN /\ Count(ops[s], "add") = 1
                 /\ history[s] = Append(entryFile[s], out[s])
                 /\ (pc[s] = "done" /\ saveOk[s]) => file = history[s]
            ELSE /\ Count(ops[s], "add") = 0
                 /\ history[s] = entryFile[s]
                 /\ file = entryFile[s]

\* "  HISTORY  -c" was accepted with the setting false and is not in the file.
C6_Witness ==
    /\ pc[1] = "done"
    /\ ret[1]
    /\ saveOk[1]
    /\ out[1] = L_HISTORY_c
    /\ ~AddHistoryCmdSetting
    /\ file = entryFile[1]

\* C7: with history.add_history_cmd false the accepted line "historyx" is in
\* the history file after the final save.
C7_HistoryxRecorded ==
    \A s \in Sessions :
        (pc[s] = "done" /\ ret[s] /\ saveOk[s] /\ ~AddHistoryCmdSetting
            /\ out[s] = L_historyx) =>
            file = Append(entryFile[s], L_historyx)

\* C8 as stated: after a failed save the result of edit_line differs from
\* the result the session has with a successful save.
C8_SaveFailureReported ==
    \A s \in Sessions :
        (pc[s] = "done" /\ ~saveOk[s]) => ret[s] # LastEditAccepted(s)

\* C8 as amended: the result of edit_line is what the last edit call
\* returned, whether the save succeeded or failed; after a failed save the
\* teardown and the restoring of the working directory have still run.
C8_SaveFailureNotReported ==
    \A s \in Sessions :
        pc[s] = "done" =>
            /\ ret[s] = LastEditAccepted(s)
            /\ editor[s] = "destroyed"
            /\ ui[s] = "destroyed"
            /\ cwd[s] = entryCwd[s]
            /\ OpsAfter(s, Len(ops[s]) - 4) = Teardown

\* An accepted line was returned as accepted though the save failed.
C8_Witness ==
    /\ pc[1] = "done"
    /\ ~saveOk[1]
    /\ ret[1]
    /\ editor[1] = "destroyed"

\* C9: a session alone on the file that has saved leaves the file as it found
\* it plus the committed line when the last line was accepted and not
\* skipped by the policy, and exactly as it found it otherwise; it adds at
\* most once.  An empty file and the line "echo hi" give the one entry.
C9_AtMostOneEntry ==
    \A s \in Sessions :
        pc[s] = "done" =>
            LET skipped == ~AddHistoryCmdSetting /\ HistoryLine(out[s])
            IN  /\ Count(ops[s], "add") <= 1
                /\ saveOk[s] =>
                       file = IF ret[s] /\ ~skipped
                              THEN Append(entryFile[s], out[s])
                              ELSE entryFile[s]
                /\ ~saveOk[s] => file = entryFile[s]
                /\ (saveOk[s] /\ ret[s] /\ entryFile[s] = << >>
                        /\ out[s] = L_echo_hi) => file = <<L_echo_hi>>

\* An empty file, "echo hi" accepted: the file holds that one entry.
C9_Witness ==
    /\ pc[1] = "done"
    /\ entryFile[1] = << >>
    /\ out[1] = L_echo_hi
    /\ file = <<L_echo_hi>>

\* C10: after an expansion that may be committed, the output buffer and the
\* entry added to the history are the expanded text.  With the history
\* ["ls -la"] and the input "!!" the file ends as ["ls -la", "ls -la"] and
\* the line returned is "ls -la".
C10_CommitsExpandedText ==
    \A s \in Sessions :
        (LoopExited(s) /\ ret[s] /\ expandResult[s] = ExpandedCommitable) =>
            LET e == Expand(entryFile[s], typed[s])
            IN  /\ e.result = ExpandedCommitable
                /\ out[s] = e.text
                /\ Count(ops[s], "add") = 1 => Last(history[s]) = e.text
                /\ (pc[s] = "done" /\ saveOk[s] /\ entryFile[s] = <<L_ls_la>>
                        /\ typed[s] = L_bangbang) =>
                       /\ file = <<L_ls_la, L_ls_la>>
                       /\ out[s] = L_ls_la

\* "!!" on the history ["ls -la"] was committed as "ls -la".
C10_Witness ==
    /\ pc[1] = "done"
    /\ ret[1]
    /\ typed[1] = L_bangbang
    /\ out[1] = L_ls_la
    /\ file = <<L_ls_la, L_ls_la>>

\* No entry of the history holds a history reference.
NoReferences(hist) == \A i \in 1..Len(hist) : ~ContainsBang(hist[i])

\* The loop has been left, or is on its way out past the expansion.
PastExpansion(s) ==
    pc[s] \in {"policy", "reload", "add", "save", "destroy", "return", "done"}

\* C11 as stated: with a history free of references the review cycles of a
\* session are bounded by the depth of reference resolution, which is one
\* for such a history.
C11_ReviewsBounded ==
    \A s \in Sessions :
        NoReferences(history[s]) => Len(printed[s]) <= 1

\* C11 as amended: the code sets no bound of its own on the review cycles;
\* each cycle leads to one more edit call, and the cycle ends when that call
\* is aborted or accepts a line without a history reference, such as the
\* displayed text of a history free of references accepted as it is.  From
\* there the session runs to the final save and returns.
C11_ReviewEndsOnPlainLine ==
    /\ [](\A s \in Sessions :
            /\ (NumEdits(s) > 0 /\ pc[s] # "expand"
                    /\ (~LastEditAccepted(s) \/ ~ContainsBang(typed[s]))) =>
                   PastExpansion(s)
            /\ (printed[s] # << >> /\ NoReferences(history[s])
                    /\ pc[s] = "edit") =>
                   ~ContainsBang(out[s])
            /\ Len(printed[s]) <= NumEdits(s))
    /\ \A s \in Sessions : PastExpansion(s) ~> (pc[s] = "done")

\* After a review the displayed text was accepted as it is, and the session
\* returned.
C11_Witness ==
    /\ pc[1] = "done"
    /\ ret[1]
    /\ Len(printed[1]) = 1
    /\ typed[1] = Last(printed[1])
    /\ editStart[1] = typed[1]

\* C12: when the file was last written by a session that committed a line,
\* it holds everything the file held at that session's commit-time reload,
\* entries persisted by the other session included, and the session's line
\* after them.
C12_ReloadMergesOthers ==
    \A s \in Sessions :
        (lastSaver = s /\ Count(ops[s], "add") = 1) =>
            file = Append(commitFile[s], out[s])

\* Session 1 committed after session 2 had persisted a line that was not in
\* the file when session 1 started; the file holds both.
C12_Witness ==
    /\ pc[1] = "done"
    /\ lastSaver = 1
    /\ Count(ops[1], "add") = 1
    /\ Count(ops[2], "add") = 1
    /\ commitFile[1] = Append(entryFile[1], out[2])
    /\ file = entryFile[1] \o <<out[2], out[1]>>

\* The outcomes of expand the specification names.
KnownOutcomes == {NoExpansion, ExpandedCommitable, ExpandedNeedsReview}

\* C13 as stated: a line whose expansion ended with any other outcome is
\* neither added to the history nor returned as the accepted line.
C13_ErrorIsRetried ==
    \A s \in Sessions :
        expandResult[s] \notin KnownOutcomes =>
            /\ Count(ops[s], "add") = 0
            /\ ~(pc[s] = "done" /\ ret[s])

\* C13 as amended: such a line is handled like one that needed no expansion.
\* Nothing is printed and the loop is not re-entered; the text expand left in
\* the buffer passes the 'history' policy, is added to the history and is
\* returned as the accepted line.
C13_ErrorIsCommitted ==
    \A s \in Sessions :
        expandResult[s] \notin KnownOutcomes =>
            /\ PastExpansion(s)
            /\ ret[s]
            /\ out[s] = Expand(entryFile[s], typed[s]).text
            /\ Len(printed[s]) = NumEdits(s) - 1
            /\ LoopExited(s) =>
                   IF ~AddHistoryCmdSetting /\ HistoryLine(out[s])
                   THEN Count(ops[s], "add") = 0
                   ELSE /\ Count(ops[s], "add") = 1
                        /\ Last(history[s]) = out[s]

\* "!zz" names no entry: the line was added to the file and returned.
C13_Witness ==
    /\ pc[1] = "done"
    /\ ret[1]
    /\ saveOk[1]
    /\ expandResult[1] = ExpandError
    /\ typed[1] = L_bang_zz
    /\ file = Append(entryFile[1], L_bang_zz)

\* The file as of the session's most recent load.
LastLoadFile(s) ==
    IF Count(ops[s], "load") = 2 THEN commitFile[s] ELSE entryFile[s]

\* The line the session committed, if any.
OwnLines(s) == IF Count(ops[s], "add") = 1 THEN <<out[s]>> ELSE << >>

\* C14: when both sessions have finished, the file is the in-memory history
\* of the session whose save wrote last: the file as of that session's most
\* recent load plus its own committed line, without anything the other
\* session persisted after that load.
C14_LastSaveWins ==
    \A s \in Sessions :
        ((\A t \in Sessions : pc[t] = "done") /\ lastSaver = s) =>
            /\ file = history[s]
            /\ history[s] = LastLoadFile(s) \o OwnLines(s)

\* Both sessions committed and saved; session 2 persisted its line after
\* session 1's reload, and session 1's later save left it out of the file.
C14_Witness ==
    /\ pc[1] = "done" /\ pc[2] = "done"
    /\ saveOk[1] /\ saveOk[2]
    /\ lastSaver = 1
    /\ Count(ops[1], "add") = 1
    /\ Count(ops[2], "add") = 1
    /\ out[1] # out[2]
    /\ file = Append(entryFile[1], out[1])

\* The session has chosen its comparison mode.
ModeChosen(s) == pc[s] \notin {"idle", "settings"}

\* Values of match.ignore_case outside off (0), on (1) and relaxed (2).
UnrecognizedValues == {-1, 3, 4}

\* C15 as stated: a session whose user has not set match.ignore_case, and
\* which therefore runs on the setting's default value, compares exactly.
C15_DefaultIsExact ==
    \A s \in Sessions :
        (ModeChosen(s) /\ settingsFile.ignore_case = << >>) =>
            cmp_mode[s] = "exact"

\* C15 as amended: off gives exact, on gives caseless, relaxed gives relaxed
\* and any unrecognized value gives exact; the setting's default value, used
\* when the user has not set it, is relaxed and gives relaxed.
C15_CmpModeFromSetting ==
    /\ \A s \in Sessions :
        ModeChosen(s) =>
            cmp_mode[s] =
                CASE settingsFile.ignore_case = <<0>> -> "exact"
                  [] settingsFile.ignore_case = <<1>> -> "caseless"
                  [] settingsFile.ignore_case = <<2>> -> "relaxed"
                  [] settingsFile.ignore_case = << >> -> "relaxed"
    /\ \A v \in UnrecognizedValues : CmpMode(v) = "exact"

\* A session without the setting in its settings file compares relaxed.
C15_Witness ==
    /\ pc[1] = "done"
    /\ settingsFile.ignore_case = << >>
    /\ g_ignore_case[1] = IgnoreCaseDefault
    /\ cmp_mode[1] = "relaxed"

\* The editor exists and has not been destroyed.
EditorInUse(s) ==
    pc[s] \in {"edit", "expand", "policy", "reload", "add", "save", "destroy"}

\* In the trace every op of A comes before every op of B.
AllBefore(s, A, B) ==
    \A i, j \in 1..Len(ops[s]) :
        (ops[s][i] \in A /\ ops[s][j] \in B) => i < j

\* C16: while the editor is in use, at the first edit call and at every
\* later one, its modules are the completion ui, the scroller and the host
\* module in this order; they are added once, before the first edit call.
C16_ModuleOrder ==
    \A s \in Sessions :
        /\ EditorInUse(s) =>
               modules[s] = <<"ui", "scroller", "host_module">>
        /\ Count(ops[s], "add_module") \in {0, 3}
        /\ NumEdits(s) > 0 => Count(ops[s], "add_module") = 3
        /\ AllBefore(s, {"add_module"}, EditOps)

\* The second edit call of a session, after a review cycle.
C16_Witness ==
    /\ pc[1] = "expand"
    /\ NumEdits(1) = 2
    /\ Count(ops[1], "puts") = 1
    /\ modules[1] = <<"ui", "scroller", "host_module">>

\* C17: while the editor is in use its generators are the Lua generator and
\* the file generator in this order, added once, after the modules and
\* before the first edit call; the candidates "foo" of the first then come
\* before the candidates "bar" of the second.
C17_GeneratorOrder ==
    \A s \in Sessions :
        /\ EditorInUse(s) =>
               /\ generators[s] = <<"lua_generator", "file_match_generator">>
               /\ CombineMatches(generators[s],
                      [g \in {"lua_generator", "file_match_generator"} |->
                          IF g = "lua_generator" THEN <<"foo">>
                                                 ELSE <<"bar">>])
                      = <<"foo", "bar">>
        /\ Count(ops[s], "add_generator") \in {0, 2}
        /\ NumEdits(s) > 0 => Count(ops[s], "add_generator") = 2
        /\ AllBefore(s, {"add_module"}, {"add_generator"})
        /\ AllBefore(s, {"add_generator"}, EditOps)

\* The second edit call of a session: the generators are as registered.
C17_Witness ==
    /\ pc[1] = "policy"
    /\ NumEdits(1) = 2
    /\ Count(ops[1], "add_generator") = 2
    /\ generators[1] = <<"lua_generator", "file_match_generator">>

Returned(s) == pc[s] \in {"return", "done"}

DestroyOps == {"destroy_editor", "destroy_ui"}

\* C18: the editor and the completion ui are each destroyed once on every
\* path: not while the loop can still call edit, after the final save and
\* before the working directory is put back.
C18_TeardownOnce ==
    \A s \in Sessions :
        /\ Count(ops[s], "destroy_editor") = IF Returned(s) THEN 1 ELSE 0
        /\ Count(ops[s], "destroy_ui") = IF Returned(s) THEN 1 ELSE 0
        /\ EditorInUse(s) => (editor[s] = "live" /\ ui[s] = "live")
        /\ Returned(s) => (editor[s] = "destroyed" /\ ui[s] = "destroyed")
        /\ AllBefore(s, EditOps \cup {"save"}, DestroyOps)
        /\ AllBefore(s, DestroyOps, {"restore_cwd"})

\* An aborted session whose save failed has returned with both destroyed.
C18_Witness ==
    /\ pc[1] = "done"
    /\ ~ret[1]
    /\ ~saveOk[1]
    /\ editor[1] = "destroyed"
    /\ ui[1] = "destroyed"

\* The latest accepted line was shown for review.
LastReviewed(s) ==
    \E i \in 1..Len(ops[s]) :
        /\ ops[s][i] = "edit_accepted"
        /\ \A j \in (i + 1)..Len(ops[s]) : ops[s][j] \notin EditOps
        /\ \E j \in (i + 1)..Len(ops[s]) : ops[s][j] = "puts"

\* C19: edit_line returns true exactly when the last edit call returned
\* accepted and its expansion did not ask for review; a line skipped by the
\* 'history' policy is returned as accepted, in the output buffer, without
\* having been added to the history.
C19_ResultIsAcceptance ==
    \A s \in Sessions :
        LoopExited(s) =>
            /\ ret[s] = (LastEditAccepted(s) /\ ~LastReviewed(s))
            /\ (LastEditAccepted(s) /\ ~AddHistoryCmdSetting
                    /\ HistoryLine(out[s])) =>
                   /\ ret[s]
                   /\ out[s] = Expand(entryFile[s], typed[s]).text
                   /\ Count(ops[s], "add") = 0

\* A line skipped by the policy was returned as accepted.
C19_Witness ==
    /\ pc[1] = "done"
    /\ ret[1]
    /\ out[1] = L_tab_History
    /\ ~AddHistoryCmdSetting
    /\ Count(ops[1], "add") = 0

\* C20: between an expansion that asked for review and the next edit call
\* the history in memory and the history file are as the session loaded
\* them, nothing having been loaded, added or saved, and the session is at
\* the edit call whatever the 'history' policy would say of the text.
C20_ReviewLeavesHistoryAlone ==
    \A s \in Sessions :
        (ops[s] # << >> /\ Last(ops[s]) = "puts") =>
            /\ pc[s] = "edit"
            /\ history[s] = entryFile[s]
            /\ file = entryFile[s]
            /\ Count(ops[s], "load") = 1
            /\ Count(ops[s], "add") = 0
            /\ Count(ops[s], "save") = 0
            /\ OpsAfter(s, Len(ops[s]) - 3) =
                   <<"edit_accepted", "expand", "puts">>

\* The reviewed text is "history" and the policy forbids such lines: the
\* session is back at the edit call with its history untouched.
C20_Witness ==
    /\ pc[1] = "edit"
    /\ Last(ops[1]) = "puts"
    /\ out[1] = L_history
    /\ ~AddHistoryCmdSetting
    /\ history[1] = <<L_history>>

====
